---- MODULE Spec2Model ----
(***************************************************************************)
(* Parity testing harness of Source 1.5 (scripts/parity_test.py).          *)
(*                                                                         *)
(* main() loads a configuration and calls ParityTester.run(), which, for   *)
(* each configured camera position in order, launches the game as a child  *)
(* process (launch_game_headless), waits for it up to a timeout, checks    *)
(* that the screenshot exists, and compares it with the golden screenshot  *)
(* (compare_screenshots, calculate_ssim, calculate_mse).  The screenshot   *)
(* and golden directories live on disk and persist between invocations.    *)
(*                                                                         *)
(* Numbers.  Thresholds are percentages (0.95 is 95).  A similarity s is   *)
(* carried exactly as the reduced fraction of its square, s^2 = n/d with   *)
(* s >= 0, so that cov/(std1*std2) needs no square root; an error score is *)
(* a reduced fraction n/d, and d = 0 is float('inf').  numpy computes in    *)
(* binary64; the one rounding the images of this model expose is that of   *)
(* std1 * std2 for two rows of variance 1/2: sqrt(0.5) * sqrt(0.5) is      *)
(* 0.5000000000000001, so the quotient cov / (std1 * std2) is the double   *)
(* just below the exact one (0.9999999999999998 where the exact value is   *)
(* 1).  A similarity carries this as the flag "below".  Every other        *)
(* quantity of rows of at most 4 pixels with values 0..2 is exact.         *)
(*                                                                         *)
(* Images are single scanlines of grey pixels: px is the luminance row,    *)
(* ch the number of channels of the decoded array (every channel of a      *)
(* pixel holds the same value, so convert('L') yields px).                 *)
(***************************************************************************)
EXTENDS Integers, Sequences, FiniteSets, TLC

VARIABLES
    test_positions,   \* config.test_positions: sequence of position dicts
    game_dir,         \* executables present in config.game_dir
    screenshot_dir,   \* file name -> file, config.screenshot_dir on disk
    golden_dir,       \* file name -> file, config.golden_dir on disk
    results,          \* ParityTester.results
    pc,               \* where main()/run() stands
    idx,              \* index of the position the for loop of run() is at
    process,          \* position index -> state of the child started for it
    wrote,            \* position indices whose child wrote its screenshot in this invocation
    trace,            \* per processed position of this invocation: what became of it
    report_generated, \* generate_report was called in this invocation
    summary_printed,  \* print_summary was called in this invocation
    success,          \* return value of run(): "none" until it returns
    exit_code,        \* exit code of the last finished invocation, -1 before
    runs              \* invocations of main() started so far

vars == <<test_positions, game_dir, screenshot_dir, golden_dir, results, pc, idx,
          process, wrote, trace, report_generated, summary_printed, success,
          exit_code, runs>>

----------------------------------------------------------------------------
(* Bounds of the model *)

MaxRuns == 2

MaxPositions == 2

MaxCalls == 2

MaxWidth == 4

MaxPixel == 2

(* Program constants *)

DefaultThreshold == 95

BootstrapThreshold == 95

\* Pillow and numpy import: the harness's stated requirement
HAS_PIL == TRUE

----------------------------------------------------------------------------
(* Exact arithmetic *)

RECURSIVE GCD(_, _)
GCD(a, b) == IF b = 0 THEN a ELSE GCD(b, a % b)

Frac(n, d) == LET g == GCD(n, d) IN [n |-> n \div g, d |-> d \div g]

Zero == [n |-> 0, d |-> 1]

\* similarities: 1.0, 0.0
SimOne == [n |-> 1, d |-> 1, below |-> FALSE]

SimZero == [n |-> 0, d |-> 1, below |-> FALSE]

Inf == [n |-> 1, d |-> 0]

RECURSIVE SumTo(_, _)
SumTo(f, k) == IF k = 0 THEN 0 ELSE f[k] + SumTo(f, k - 1)

Sum(f) == SumTo(f, Len(f))

Max(a, b) == IF a >= b THEN a ELSE b

----------------------------------------------------------------------------
(* Files and images *)

NoFile == [kind |-> "absent", ch |-> 0, px |-> <<>>]

Corrupt == [kind |-> "corrupt", ch |-> 0, px |-> <<>>]

Exists(file) == file.kind # "absent"

\* Image.open(path): raises unless the file decodes as an image.
OpenRaises(file) == file.kind # "tga"

\* Image.open(path) on a file that decodes: the image.
Open(file) == [ch |-> file.ch, px |-> file.px]

\* img.save(path): the file written, holding the image's mode and pixels.
Save(img) == [kind |-> "tga", ch |-> img.ch, px |-> img.px]

\* np.array(img.convert('L')): the luminance row.
Lum(img) == img.px

\* np.array(img).shape: (1, w) for a single-channel image, (1, w, ch) otherwise.
Shape(img) == IF img.ch = 1 THEN <<1, Len(img.px)>> ELSE <<1, Len(img.px), img.ch>>

\* numpy broadcasting of two rows: equal lengths, or one of length 1.
Broadcastable(n1, n2) == n1 = n2 \/ n1 = 1 \/ n2 = 1

\* arr - np.mean(arr), every entry multiplied by len(arr) to stay in the integers.
Dev(arr) == [i \in 1..Len(arr) |-> Len(arr) * arr[i] - Sum(arr)]

SumSq(f) == Sum([i \in 1..Len(f) |-> f[i] * f[i]])

\* the entry of a row of length n at column k of the broadcast result
At(f, k) == IF Len(f) = 1 THEN f[1] ELSE f[k]

\* std1 * std2 in binary64 exceeds the exact product: both variances are 1/2
\* (v is the variance times n^3)
StdProductRoundsUp(v1, n1, v2, n2) ==
    2 * v1 = n1 * n1 * n1 /\ 2 * v2 = n2 * n2 * n2

calculate_ssim(img1, img2) ==
    IF ~HAS_PIL THEN [raised |-> FALSE, value |-> SimZero]
    ELSE
    LET arr1 == Lum(img1)
        arr2 == Lum(img2)
        n1 == Len(arr1)
        n2 == Len(arr2)
        w == Max(n1, n2)
        d1 == Dev(arr1)
        d2 == Dev(arr2)
        v1 == SumSq(d1)            \* std1^2 * n1^3
        v2 == SumSq(d2)            \* std2^2 * n2^3
        \* cov * w * n1 * n2
        c == Sum([k \in 1..w |-> At(d1, k) * At(d2, k)])
    IN  IF ~Broadcastable(n1, n2)
        THEN [raised |-> TRUE, value |-> SimZero]  \* ValueError at (arr1 - mean1) * (arr2 - mean2)
        ELSE IF v1 = 0 \/ v2 = 0
        THEN [raised |-> FALSE, value |-> IF arr1 = arr2 THEN SimOne ELSE SimZero]
        ELSE IF c <= 0
        THEN [raised |-> FALSE, value |-> SimZero] \* max(0.0, ...)
        ELSE LET q == Frac(c * c * n1 * n2, w * w * v1 * v2)
             IN  [raised |-> FALSE,
                  value |-> IF q.n > q.d THEN SimOne  \* min(1.0, ...)
                            ELSE [n |-> q.n, d |-> q.d,
                                  below |-> StdProductRoundsUp(v1, n1, v2, n2)]]

calculate_mse(img1, img2) ==
    IF ~HAS_PIL THEN Zero
    ELSE IF Shape(img1) # Shape(img2) THEN Inf
    ELSE LET a == img1.px
             b == img2.px
             sq == Sum([i \in 1..Len(a) |-> (a[i] - b[i]) * (a[i] - b[i])])
         IN  Frac(img1.ch * sq, img1.ch * Len(a))

\* similarity >= threshold, the similarity as the fraction of its square and
\* the threshold in percent
AtLeast(ssim, threshold) ==
    IF ssim.below
    THEN ssim.n * 100 * 100 > threshold * threshold * ssim.d
    ELSE ssim.n * 100 * 100 >= threshold * threshold * ssim.d

\* f"{map_name}_{position['name']}.tga": one file name per position name
screenshot_name(position) == position.name

\* position.get('ssim_threshold', 0.95)
get_ssim_threshold(position) ==
    IF "ssim_threshold" \in DOMAIN position THEN position.ssim_threshold
    ELSE DefaultThreshold

ComparisonResult(position, ssim, mse, passed, threshold) ==
    [position |-> position.name, ssim |-> ssim, mse |-> mse, passed |-> passed,
     threshold |-> threshold]

\* mutant of compare_screenshots: the golden screenshot is saved from the test
\* image without the golden_path.exists() test
compare_screenshots_always_saves(position, sdir, gdir) ==
    LET name == screenshot_name(position)
        test == sdir[name]
    IN  IF ~Exists(test) THEN [kind |-> "none", golden |-> gdir]
        ELSE IF OpenRaises(test) THEN [kind |-> "raise", golden |-> gdir]
        ELSE [kind |-> "result",
              golden |-> [gdir EXCEPT ![name] = Save(Open(test))],
              result |-> ComparisonResult(position, SimOne, Zero, TRUE, BootstrapThreshold)]

\* What compare_screenshots(position) does with the two directories as they
\* are: kind is "result" (a ComparisonResult is returned), "none" (None is
\* returned) or "raise" (an exception leaves the method); golden is the golden
\* directory afterwards.
compare_screenshots(position, sdir, gdir) ==
    LET name == screenshot_name(position)
        test == sdir[name]
        golden == gdir[name]
        none == [kind |-> "none", golden |-> gdir]
        raise == [kind |-> "raise", golden |-> gdir]
    IN  IF ~HAS_PIL THEN none
        ELSE IF ~Exists(test) THEN none
        ELSE IF ~Exists(golden)
        THEN IF OpenRaises(test) THEN raise
             ELSE [kind |-> "result",
                   golden |-> [gdir EXCEPT ![name] = Save(Open(test))],
                   result |-> ComparisonResult(position, SimOne, Zero, TRUE, BootstrapThreshold)]
        ELSE IF OpenRaises(test) \/ OpenRaises(golden) THEN none
        ELSE LET img_test == Open(test)
                 img_golden == Open(golden)
                 ssim == calculate_ssim(img_test, img_golden)
                 mse == calculate_mse(img_test, img_golden)
                 threshold == get_ssim_threshold(position)
             IN  IF ssim.raised THEN raise
                 ELSE [kind |-> "result", golden |-> gdir,
                       result |-> ComparisonResult(position, ssim.value, mse,
                                                   AtLeast(ssim.value, threshold), threshold)]

\* mutant of all_passed: any() in place of all()
any_passed(rs) == \E i \in 1..Len(rs) : rs[i].passed

\* all(r.passed for r in self.results)
all_passed(rs) == \A i \in 1..Len(rs) : rs[i].passed

\* the executable launch_game_headless finds: hl2.exe first, then hl2.sh
game_exe(dir) ==
    IF "hl2.exe" \in dir THEN "hl2.exe"
    ELSE IF "hl2.sh" \in dir THEN "hl2.sh"
    ELSE "none"

----------------------------------------------------------------------------
(* Configurations and frames *)

Thresholds == {90}

\* the position dicts a configuration may hold under the name i: without
\* 'ssim_threshold', or with one
PositionDicts(i) ==
    {[name |-> i]} \cup {[name |-> i, ssim_threshold |-> t] : t \in Thresholds}

Names == 1..MaxPositions

\* configurations: 0..MaxPositions positions, the i-th named i
Configs ==
    UNION {{c \in [1..n -> UNION {PositionDicts(i) : i \in Names}] :
               \A i \in 1..n : c[i].name = i} : n \in 0..MaxPositions}

Ramp == [kind |-> "tga", ch |-> 1, px |-> <<0, 1, 2>>]

Flat == [kind |-> "tga", ch |-> 1, px |-> <<1, 1, 1>>]

\* what the game may leave under the screenshot's name
Frames == {Ramp, Flat, Corrupt}

----------------------------------------------------------------------------
(* The harness *)

Init ==
    /\ test_positions \in Configs
    /\ game_dir \in {{}, {"hl2.sh"}}
    /\ screenshot_dir = [n \in Names |-> NoFile]
    /\ golden_dir = [n \in Names |-> NoFile]
    /\ results = <<>>
    /\ pc = "start"
    /\ idx = 1
    /\ process = [i \in Names |-> "none"]
    /\ wrote = {}
    /\ trace = <<>>
    /\ report_generated = FALSE
    /\ summary_printed = FALSE
    /\ success = "none"
    /\ exit_code = -1
    /\ runs = 0

disk == <<screenshot_dir, golden_dir>>

config == <<test_positions, game_dir>>

\* the process ends: the ParityTester and its results are gone, the disk stays
ended ==
    /\ pc' = "exited"
    /\ results' = <<>>
    /\ idx' = 1
    /\ process' = [i \in Names |-> "none"]
    /\ wrote' = {}
    /\ trace' = <<>>
    /\ report_generated' = FALSE
    /\ summary_printed' = FALSE

\* main(): the configuration file does not exist, sys.exit(1)
main_no_config ==
    /\ pc \in {"start", "exited"}
    /\ runs < MaxRuns
    /\ runs' = runs + 1
    /\ exit_code' = 1
    /\ success' = "none"
    /\ ended
    /\ UNCHANGED <<config, disk>>

\* main() up to the for loop of run(): a new ParityTester, the directories made
main_run ==
    /\ pc \in {"start", "exited"}
    /\ runs < MaxRuns
    /\ runs' = runs + 1
    /\ exit_code' = -1
    /\ pc' = "loop"
    /\ results' = <<>>
    /\ idx' = 1
    /\ process' = [i \in Names |-> "none"]
    /\ wrote' = {}
    /\ trace' = <<>>
    /\ report_generated' = FALSE
    /\ summary_printed' = FALSE
    /\ success' = "none"
    /\ UNCHANGED <<config, disk>>

\* mutant of skip: break in place of continue
skip_breaks ==
    /\ trace' = Append(trace, "skipped")
    /\ idx' = Len(test_positions) + 1
    /\ pc' = "loop"

\* run(): launch_game_headless returned False, "Skipping comparison", continue
skip ==
    /\ trace' = Append(trace, "skipped")
    /\ idx' = idx + 1
    /\ pc' = "loop"

\* launch_game_headless: neither hl2.exe nor hl2.sh exists, return False
launch_no_exe ==
    /\ pc = "loop"
    /\ idx <= Len(test_positions)
    /\ game_exe(game_dir) = "none"
    /\ skip
    /\ UNCHANGED <<config, disk, results, process, wrote, report_generated,
                   summary_printed, success, exit_code, runs>>

\* launch_game_headless: subprocess.Popen raises, caught by except Exception
launch_popen_raises ==
    /\ pc = "loop"
    /\ idx <= Len(test_positions)
    /\ game_exe(game_dir) # "none"
    /\ skip
    /\ UNCHANGED <<config, disk, results, process, wrote, report_generated,
                   summary_printed, success, exit_code, runs>>

\* launch_game_headless: subprocess.Popen starts the child, process.wait blocks
launch_popen ==
    /\ pc = "loop"
    /\ idx <= Len(test_positions)
    /\ game_exe(game_dir) # "none"
    /\ process' = [process EXCEPT ![idx] = "running"]
    /\ pc' = "wait"
    /\ UNCHANGED <<config, disk, results, idx, wrote, trace, report_generated,
                   summary_printed, success, exit_code, runs>>

\* the game: +screenshot writes the file named for the position
child_screenshot ==
    /\ pc = "wait"
    /\ process[idx] = "running"
    /\ idx \notin wrote
    /\ \E f \in Frames :
         screenshot_dir' = [screenshot_dir EXCEPT ![screenshot_name(test_positions[idx])] = f]
    /\ wrote' = wrote \cup {idx}
    /\ UNCHANGED <<config, golden_dir, results, pc, idx, process, trace,
                   report_generated, summary_printed, success, exit_code, runs>>

\* the game: +quit, or a crash
child_quit ==
    /\ pc = "wait"
    /\ process[idx] = "running"
    /\ process' = [process EXCEPT ![idx] = "exited"]
    /\ UNCHANGED <<config, disk, results, pc, idx, wrote, trace, report_generated,
                   summary_printed, success, exit_code, runs>>

\* what launch_game_headless returns once process.wait has returned
screenshot_found(position, sdir) == Exists(sdir[screenshot_name(position)])

\* launch_game_headless: process.wait returns, the screenshot is looked for
wait_returns ==
    /\ pc = "wait"
    /\ process[idx] = "exited"
    /\ IF screenshot_found(test_positions[idx], screenshot_dir)
       THEN pc' = "compare" /\ UNCHANGED <<idx, trace>>
       ELSE skip
    /\ UNCHANGED <<config, disk, results, process, wrote, report_generated,
                   summary_printed, success, exit_code, runs>>

\* mutant of timeout_handler: the handler without process.kill()
no_kill(state) == state

\* the state of the child after the TimeoutExpired handler
timeout_handler(state) == "killed"

\* launch_game_headless: process.wait times out, process.kill(), return False
wait_timeout ==
    /\ pc = "wait"
    /\ process[idx] = "running"
    /\ process' = [process EXCEPT ![idx] = timeout_handler(process[idx])]
    /\ skip
    /\ UNCHANGED <<config, disk, results, wrote, report_generated,
                   summary_printed, success, exit_code, runs>>

\* run(): result = compare_screenshots(position); if result: results.append
compare ==
    /\ pc = "compare"
    /\ LET r == compare_screenshots(test_positions[idx], screenshot_dir, golden_dir)
       IN  /\ golden_dir' = r.golden
           /\ IF r.kind = "raise"
              THEN /\ pc' = "raised"
                   /\ trace' = Append(trace, "raised")
                   /\ UNCHANGED <<results, idx>>
              ELSE /\ pc' = "loop"
                   /\ idx' = idx + 1
                   /\ IF r.kind = "result"
                      THEN /\ results' = Append(results, r.result)
                           /\ trace' = Append(trace, "result")
                      ELSE /\ results' = results
                           /\ trace' = Append(trace, "none")
    /\ UNCHANGED <<config, screenshot_dir, process, wrote, report_generated,
                   summary_printed, success, exit_code, runs>>

\* mutant of report_due: the report written unconditionally
report_always(rs) == TRUE

\* if self.results: self.generate_report()
report_due(rs) == rs # <<>>

\* run() after the loop: the report, the summary, the return value
run_finish ==
    /\ pc = "loop"
    /\ idx > Len(test_positions)
    /\ report_generated' = report_due(results)
    /\ summary_printed' = TRUE
    /\ success' = IF all_passed(results) THEN "true" ELSE "false"
    /\ pc' = "returned"
    /\ UNCHANGED <<config, disk, results, idx, process, wrote, trace, exit_code, runs>>

\* sys.exit(0 if success else 1)
exit_status(ok) == IF ok = "true" THEN 0 ELSE 1

main_exit ==
    /\ pc = "returned"
    /\ exit_code' = exit_status(success)
    /\ ended
    /\ UNCHANGED <<config, disk, success, runs>>

\* an exception left run() and main(): the interpreter exits with status 1
main_uncaught ==
    /\ pc = "raised"
    /\ exit_code' = 1
    /\ ended
    /\ UNCHANGED <<config, disk, success, runs>>

Next ==
    \/ main_no_config
    \/ main_run
    \/ launch_no_exe
    \/ launch_popen_raises
    \/ launch_popen
    \/ child_screenshot
    \/ child_quit
    \/ wait_returns
    \/ wait_timeout
    \/ compare
    \/ run_finish
    \/ main_exit
    \/ main_uncaught

Spec == Init /\ [][Next]_vars

----------------------------------------------------------------------------
(* The comparator called on its own: compare_screenshots and calculate_ssim *)
(* applied to one position and to every pair of files within the bounds.    *)

Channels == {1, 3}

UnitThresholds == {50, 100}

Rows == UNION {[1..w -> 0..MaxPixel] : w \in 1..MaxWidth}

Images == {[kind |-> "tga", ch |-> c, px |-> r] : c \in Channels, r \in Rows}

UnitPositions == {[name |-> 1]} \cup {[name |-> 1, ssim_threshold |-> t] : t \in UnitThresholds}

InitUnit ==
    /\ \E p \in UnitPositions : test_positions = <<p>>
    /\ game_dir = {}
    /\ \E f \in Images \cup {NoFile, Corrupt} :
         screenshot_dir = [n \in Names |-> IF n = 1 THEN f ELSE NoFile]
    /\ \E g \in Images \cup {NoFile, Corrupt} :
         golden_dir = [n \in Names |-> IF n = 1 THEN g ELSE NoFile]
    /\ results = <<>>
    /\ pc = "unit"
    /\ idx = 1
    /\ process = [i \in Names |-> "none"]
    /\ wrote = {}
    /\ trace = <<>>
    /\ report_generated = FALSE
    /\ summary_printed = FALSE
    /\ success = "none"
    /\ exit_code = -1
    /\ runs = 0

\* a call of compare_screenshots(position); trace records how it ended
call_compare_screenshots ==
    /\ pc = "unit"
    /\ Len(trace) < MaxCalls
    /\ LET r == compare_screenshots(test_positions[1], screenshot_dir, golden_dir)
       IN  /\ golden_dir' = r.golden
           /\ results' = IF r.kind = "result" THEN Append(results, r.result) ELSE results
           /\ trace' = Append(trace, [call |-> "compare_screenshots", kind |-> r.kind,
                                      test |-> screenshot_dir[1], golden |-> golden_dir[1],
                                      n |-> Len(results')])
    /\ UNCHANGED <<config, screenshot_dir, pc, idx, process, wrote, report_generated,
                   summary_printed, success, exit_code, runs>>

\* a call of calculate_ssim(img_test, img_golden) on the two files as images
call_calculate_ssim ==
    /\ pc = "unit"
    /\ trace = <<>>
    /\ ~OpenRaises(screenshot_dir[1])
    /\ ~OpenRaises(golden_dir[1])
    /\ LET img1 == Open(screenshot_dir[1])
           img2 == Open(golden_dir[1])
           r == calculate_ssim(img1, img2)
       IN  trace' = Append(trace, [call |-> "calculate_ssim", img1 |-> img1, img2 |-> img2,
                                   raised |-> r.raised, value |-> r.value])
    /\ pc' = "unit_done"
    /\ UNCHANGED <<config, disk, results, idx, process, wrote, report_generated,
                   summary_printed, success, exit_code, runs>>

NextUnit == call_compare_screenshots \/ call_calculate_ssim

SpecUnit == InitUnit /\ [][NextUnit]_vars

----------------------------------------------------------------------------
(* Properties *)

\* the positions processed so far in this invocation that left a result, in order
RECURSIVE RecordedUpTo(_)
RecordedUpTo(k) ==
    IF k = 0 THEN <<>>
    ELSE IF trace[k] = "result"
         THEN Append(RecordedUpTo(k - 1), test_positions[k].name)
         ELSE RecordedUpTo(k - 1)

\* C1: the results are the outcomes of exactly the processed positions whose
\* launch succeeded and whose comparison returned one, in configuration order;
\* a failed launch (missing executable, Popen error, timeout, missing
\* screenshot) only skips its position: when run() returns every position has
\* been processed, and nothing but an exception of the comparator ends the
\* loop early.
C1_ResultsFollowPositions ==
    /\ [j \in 1..Len(results) |-> results[j].position] = RecordedUpTo(Len(trace))
    /\ pc = "loop" => Len(trace) = idx - 1
    /\ pc = "returned" => Len(trace) = Len(test_positions)
    /\ pc = "raised" => trace[Len(trace)] = "raised"

\* C1 witness: two positions, the first timed out and was killed, the second
\* was compared; run() returned with the second position's outcome alone
C1_Witness ==
    /\ pc = "returned"
    /\ Len(test_positions) = 2
    /\ process[1] = "killed"
    /\ trace = <<"skipped", "result">>
    /\ Len(results) = 1
    /\ results[1].position = test_positions[2].name

C3_ThresholdUsed ==
    \A j \in 1..Len(results) :
        LET position == test_positions[results[j].position]
        IN  /\ results[j].passed = AtLeast(results[j].ssim, results[j].threshold)
            /\ results[j].threshold =
                 (IF "ssim_threshold" \in DOMAIN position THEN position.ssim_threshold ELSE 95)

\* the calls of compare_screenshots made so far, as indices of trace
CompareCalls == {k \in 1..Len(trace) : trace[k].call = "compare_screenshots"}

\* C4: a comparison without a reference creates the reference from the
\* candidate and returns passed, similarity 1.0, error 0.0; the next
\* comparison of the same candidate returns passed and similarity 1.0 too.
C4_BootstrapThenSame ==
    \A k \in CompareCalls :
        (~Exists(trace[k].golden) /\ ~OpenRaises(trace[k].test)) =>
            /\ trace[k].kind = "result"
            /\ results[trace[k].n].passed
            /\ results[trace[k].n].ssim = SimOne
            /\ results[trace[k].n].mse = Zero
            /\ (k + 1 \in CompareCalls =>
                  /\ trace[k + 1].golden.px = trace[k].test.px
                  /\ trace[k + 1].golden.ch = trace[k].test.ch
                  /\ trace[k + 1].kind = "result"
                  /\ results[trace[k + 1].n].passed
                  /\ results[trace[k + 1].n].ssim = SimOne)

\* C5: a comparison of two images that load but differ in shape returns an
\* outcome whose error is infinite and whose passed flag is similarity >=
\* threshold.
C5_ShapeMismatch ==
    \A k \in CompareCalls :
        (/\ ~OpenRaises(trace[k].test)
         /\ ~OpenRaises(trace[k].golden)
         /\ Shape(Open(trace[k].test)) # Shape(Open(trace[k].golden))) =>
            /\ trace[k].kind = "result"
            /\ results[trace[k].n].mse = Inf
            /\ results[trace[k].n].passed =
                 AtLeast(results[trace[k].n].ssim, results[trace[k].n].threshold)

\* C6: a processed position whose screenshot or golden file does not load
\* leaves no outcome and no exception: it is skipped or its comparison
\* returned None, and run() goes on.
C6_LoadFailureIsSkipped ==
    \A i \in 1..Len(trace) :
        LET name == screenshot_name(test_positions[i])
        IN  (\/ (Exists(screenshot_dir[name]) /\ OpenRaises(screenshot_dir[name]))
             \/ (Exists(golden_dir[name]) /\ OpenRaises(golden_dir[name]))) =>
                trace[i] \in {"skipped", "none"}

\* C7: a position whose child did not write its screenshot during this
\* invocation is skipped.
C7_NoArtifactNoOutcome ==
    \A i \in 1..Len(trace) : i \notin wrote => trace[i] = "skipped"

\* C8: the report is generated exactly when run() ends with at least one
\* outcome, and never before; without outcomes run() returns true.
C8_ReportIffResults ==
    /\ pc = "returned" => (report_generated <=> Len(results) > 0)
    /\ pc = "returned" /\ Len(results) = 0 => success = "true"
    /\ pc # "returned" => ~report_generated

\* C8 witness: both positions were skipped; run() returned true without a report
C8_Witness ==
    /\ pc = "returned"
    /\ trace = <<"skipped", "skipped">>
    /\ ~report_generated
    /\ success = "true"

\* the calls of calculate_ssim made so far, as indices of trace
SsimCalls == {k \in 1..Len(trace) : trace[k].call = "calculate_ssim"}

\* the luminance row has zero standard deviation
IsFlat(img) == \A i \in 1..Len(img.px) : img.px[i] = img.px[1]

\* C9: for two images of which at least one is flat, calculate_ssim returns
\* 1.0 when the luminance arrays are identical and 0.0 otherwise.
C9_FlatSsim ==
    \A k \in SsimCalls :
        (IsFlat(trace[k].img1) \/ IsFlat(trace[k].img2)) =>
            /\ ~trace[k].raised
            /\ trace[k].value =
                 (IF trace[k].img1.px = trace[k].img2.px THEN SimOne ELSE SimZero)

\* C10: at most one child is alive, and only while launch_game_headless
\* waits for it: it has exited or been killed before the method returns.
C10_OneChildAtMost ==
    /\ Cardinality({i \in Names : process[i] = "running"}) <= 1
    /\ \A i \in Names : process[i] = "running" => (pc = "wait" /\ idx = i)

\* C10 witness: the first child timed out and was killed, the second is running
C10_Witness ==
    /\ pc = "wait"
    /\ idx = 2
    /\ process[1] = "killed"
    /\ process[2] = "running"


\* C11: a golden screenshot that exists is never changed, by any step of any
\* invocation, whatever the test screenshot holds and however the comparison
\* ends; and the step of run() that calls compare_screenshots leaves the
\* screenshot directory as it is.
C11_GoldenWrittenOnce ==
    [][/\ \A n \in Names : Exists(golden_dir[n]) => golden_dir'[n] = golden_dir[n]
       /\ pc = "compare" => screenshot_dir' = screenshot_dir]_vars

\* C11 witness: in a second invocation the test screenshot differs from the
\* golden one created by the first, the comparison has failed, and the
\* golden screenshot still holds what the first invocation saved
C11_Witness ==
    /\ runs = 2
    /\ trace = <<"result">>
    /\ ~results[1].passed
    /\ golden_dir[1] = Ramp
    /\ screenshot_dir[1] = Flat

====
